---- MODULE Spec2Model ----
(***************************************************************************)
(* LawScanner: the summarize route (src/app/api/summarize/route.ts), the   *)
(* risk colouring of the review UI and the two OCR adapters                *)
(* (src/app/api/ocr/route.ts).                                             *)
(*                                                                         *)
(* JavaScript values are tagged records.  Numbers are fixed-point: the     *)
(* integer n of Num(n) stands for n/100, so 0.75 is Num(75), 1 is Num(100) *)
(* and a risk score of 4 is Num(400).  1e999 and -1e999 in a JSON text     *)
(* parse to Infinity and -Infinity; JSON has no NaN and no undefined, so   *)
(* Undef only ever stands for a key the object does not have.              *)
(***************************************************************************)
EXTENDS Integers, Sequences, FiniteSets, TLC

\* ---------------------------------------------------------------- bounds
MaxEdits == 1
MaxElems == 2
MaxPages == 2
MaxBlocks == 2
MaxLines == 1
MaxProse == 1
MaxEntities == 2
MaxVertices == 4
MaxRuns == 2
MaxEffects == 3

\* ------------------------------------------------------- JavaScript values
Undef == [t |-> "undefined"]
Null == [t |-> "null"]
Str(s) == [t |-> "string", s |-> s]
Num(n) == [t |-> "number", k |-> "finite", n |-> n]
PosInf == [t |-> "number", k |-> "Infinity", n |-> 0]
NegInf == [t |-> "number", k |-> "-Infinity", n |-> 0]
Bool(b) == [t |-> "boolean", b |-> b]
Obj == [t |-> "object"]
Arr(a) == [t |-> "array", a |-> a]

\* ToBoolean: the truthiness that || and ! test
Truthy(x) ==
  CASE x.t = "undefined" -> FALSE
    [] x.t = "null" -> FALSE
    [] x.t = "string" -> x.s # ""
    [] x.t = "number" -> x.k # "finite" \/ x.n # 0
    [] x.t = "boolean" -> x.b
    [] OTHER -> TRUE

\* a || b
OrElse(a, b) == IF Truthy(a) THEN a ELSE b

IsArray(x) == x.t = "array"

TypeofNumber(x) == x.t = "number"

\* Math.max(0, x) and Math.min(1, x) on a number
MathMax0(x) ==
  CASE x.k = "Infinity" -> x
    [] x.k = "-Infinity" -> Num(0)
    [] OTHER -> IF x.n > 0 THEN x ELSE Num(0)

MathMin1(x) ==
  CASE x.k = "Infinity" -> Num(100)
    [] x.k = "-Infinity" -> x
    [] OTHER -> IF x.n < 100 THEN x ELSE Num(100)

\* ------------------------------------------------------- Summary Result
ArrayFields ==
  {"parties", "important_dates", "obligations", "risk_flags", "suggested_redactions"}

NullableFields == {"payment_terms", "termination_clauses", "governing_law"}

Fields == {"short_summary", "confidence_score"} \cup ArrayFields \cup NullableFields

RoutePlaceholder == Str("Unable to generate summary - document analysis incomplete")

TestPlaceholder == Str("Unable to generate summary")

DefaultConfidence == Num(50)

ClampUpperOnly(x) == MathMin1(x)

ClampScaled(x) == IF x.k = "finite" /\ x.n > 100 THEN Num(x.n \div 100) ELSE MathMin1(MathMax0(x))

Clamp(x) == MathMin1(MathMax0(x))

ArrayOrTruthy(x) == OrElse(x, Arr(<<>>))

ArrayOrEmpty(x) == IF IsArray(x) THEN x ELSE Arr(<<>>)

\* the normalizer as a spread of the candidate with the ten fields overridden
validateAndNormalizeSummarySpread(summary) ==
  [f \in DOMAIN summary \cup Fields |->
    CASE f = "short_summary" -> OrElse(summary[f], RoutePlaceholder)
      [] f \in ArrayFields -> ArrayOrEmpty(summary[f])
      [] f \in NullableFields -> OrElse(summary[f], Null)
      [] f = "confidence_score" -> IF TypeofNumber(summary[f])
                                  THEN Clamp(summary[f]) ELSE DefaultConfidence
      [] OTHER -> summary[f]]

validateAndNormalizeSummary(summary) ==
  [f \in Fields |->
    CASE f = "short_summary" -> OrElse(summary[f], RoutePlaceholder)
      [] f \in ArrayFields -> ArrayOrEmpty(summary[f])
      [] f \in NullableFields -> OrElse(summary[f], Null)
      [] OTHER -> IF TypeofNumber(summary[f])
                  THEN Clamp(summary[f]) ELSE DefaultConfidence]

\* the helper of the test suite, a copy of the normalizer with its own placeholder
validateSummary(summary) ==
  [f \in Fields |->
    CASE f = "short_summary" -> OrElse(summary[f], TestPlaceholder)
      [] f \in ArrayFields -> ArrayOrEmpty(summary[f])
      [] f \in NullableFields -> OrElse(summary[f], Null)
      [] OTHER -> IF TypeofNumber(summary[f])
                  THEN Clamp(summary[f]) ELSE DefaultConfidence]

RiskFlag(score, reason) == [score |-> Num(score), reason |-> reason]

MockConfidencePercent == Num(9500)

MockConfidence == Num(95)

getMockSummary ==
  [f \in Fields |->
    CASE f = "short_summary" ->
           Str("This is a service agreement between two companies establishing terms for consulting services.")
      [] f = "parties" ->
           Arr(<<[role |-> "Service Provider", name |-> "Example Consulting LLC"],
                 [role |-> "Client", name |-> "Business Corp"]>>)
      [] f = "important_dates" ->
           Arr(<<[type |-> "Effective Date", date |-> "2024-01-15"],
                 [type |-> "Initial Term End", date |-> "2025-01-15"]>>)
      [] f = "obligations" ->
           Arr(<<[who |-> "Service Provider", action |-> "Provide monthly consulting services"],
                 [who |-> "Client", action |-> "Pay invoices within 30 days of receipt"]>>)
      [] f = "payment_terms" -> Str("Monthly invoicing with Net 30 payment terms.")
      [] f = "termination_clauses" -> Str("Either party may terminate with 30 days written notice.")
      [] f = "governing_law" -> Str("State of Delaware")
      [] f = "risk_flags" ->
           Arr(<<RiskFlag(400, "Broad indemnification clause"),
                 RiskFlag(200, "Standard limitation of liability clause")>>)
      [] f = "suggested_redactions" -> Arr(<<>>)
      [] OTHER -> MockConfidence]

\* ------------------------------------ candidates the backend text parses to
EmptyObject == [f \in Fields |-> Undef]

\* the complete summary of the test suite ('should validate a complete summary')
ValidSummary ==
  [f \in Fields |->
    CASE f = "short_summary" -> Str("This is a service agreement between Company A and Company B.")
      [] f = "parties" -> Arr(<<[role |-> "Service Provider", name |-> "Company A"],
                               [role |-> "Client", name |-> "Company B"]>>)
      [] f = "important_dates" -> Arr(<<[type |-> "Effective Date", date |-> "2024-01-01"]>>)
      [] f = "obligations" -> Arr(<<[who |-> "Company A", action |-> "Provide consulting services"]>>)
      [] f = "payment_terms" -> Str("Net 30 days")
      [] f = "termination_clauses" -> Str("30 days written notice")
      [] f = "governing_law" -> Str("State of Delaware")
      [] f = "risk_flags" -> Arr(<<RiskFlag(300, "Standard terms")>>)
      [] f = "suggested_redactions" ->
           Arr(<<[page |-> Num(100), start_char |-> Num(10000), end_char |-> Num(12000)]>>)
      [] OTHER -> Num(85)]

\* keys outside the Summary Result that the review UI reads
OtherKeys == {"key_highlights", "detailed_summary"}

\* a complete summary to which the backend added those keys
DetailedSummary ==
  [f \in Fields \cup OtherKeys |->
    CASE f \in Fields -> ValidSummary[f]
      [] f = "key_highlights" -> Arr(<<Str("Net 30 payment"), Str("30 days notice")>>)
      [] OTHER -> Str("The agreement sets out the services and the fees.")]

SeqsUpTo(E, n) == UNION {[1..k -> E] : k \in 0..n}

NonArrayValues == {Null, Str("none"), Num(0), Num(100), Bool(TRUE), Obj}

RiskScores == {100 * k : k \in 0..11} \cup {250}

RedactionElements ==
  {[page |-> Num(100), start_char |-> Num(10000), end_char |-> Num(12000)],
   [page |-> Num(100), start_char |-> Num(12000), end_char |-> Num(10000)],
   [page |-> Num(0), start_char |-> Num(10000), end_char |-> Num(12000)]}

ElementsOf(f) ==
  CASE f = "parties" -> {[role |-> "Landlord", name |-> "Property LLC"],
                         [role |-> "Tenant", name |-> "John Doe"]}
    [] f = "important_dates" -> {[type |-> "Expiration", date |-> "2025-12-31"],
                                 [type |-> "Payment Due", date |-> "2024-02-15"]}
    [] f = "obligations" -> {[who |-> "Company A", action |-> "Deliver"],
                             [who |-> "Company B", action |-> "Pay"]}
    [] f = "risk_flags" -> {RiskFlag(s, "reason") : s \in RiskScores}
    [] OTHER -> RedactionElements

FieldValues(f) ==
  CASE f = "short_summary" ->
         {Undef, Null, Str(""), Str("Brief summary"), Num(0), Num(4200), Bool(TRUE),
          Bool(FALSE), Obj, Arr(<<>>)}
    [] f \in NullableFields ->
         {Undef, Null, Str(""), Str("LOW_CONFIDENCE"), Num(0), Num(3000), Bool(TRUE), Arr(<<>>)}
    [] f = "confidence_score" ->
         {Undef, Null, Str("0.75"), Num(-50), Num(0), Num(75), Num(100), Num(150),
          Num(15000), PosInf, NegInf, Bool(TRUE), Obj}
    [] OTHER -> {Undef} \cup NonArrayValues \cup {Arr(a) : a \in SeqsUpTo(ElementsOf(f), MaxElems)}

\* a candidate is one of the two objects of the test suite, or the summary
\* with the added keys, with up to
\* MaxEdits of its keys replaced (an edit to Undef deletes the key)
Bases == {EmptyObject, ValidSummary, DetailedSummary}

Edits == UNION {{<<f, v>> : v \in FieldValues(f)} : f \in Fields}

RECURSIVE ApplyEdits(_, _, _)
ApplyEdits(c, es, n) ==
  IF n = 0 THEN c
  ELSE [ApplyEdits(c, es, n - 1) EXCEPT ![es[n][1]] = es[n][2]]

\* ------------------------------------------------------------ the requests
BlockCap == 50

\* the page result numbered k, with n blocks and e entities
OcrPage(k, n, e) ==
  [page |-> k,
   text |-> Str("Page text"),
   blocks |-> Arr([i \in 1..n |-> [id |-> i]]),
   entities |-> Arr([i \in 1..e |-> [type |-> "PARTY", index |-> i]])]

OcrResults ==
  {Undef} \cup
  {[t |-> "object", meta |-> m, ocr |-> o] :
     m \in {Undef, Obj},
     o \in {Undef, Arr(<<>>), Arr(<<OcrPage(1, 0, 0)>>)}}

\* requests whose pages hold fewer blocks than the cap, as many, or more; an
\* ocr member that is no array; a page without a block list
PageKinds == [blocks : {0, 1, BlockCap, BlockCap + 1}, entities : {0, BlockCap + 1}]

PagedOcrResults ==
  {Undef} \cup
  {[t |-> "object", meta |-> m, ocr |-> o] :
     m \in {Undef, Obj},
     o \in {Undef, Obj,
            Arr(<<[page |-> 1, text |-> Str("Page text"), blocks |-> Undef, entities |-> Undef]>>)}
           \cup {Arr([k \in DOMAIN ks |-> OcrPage(k, ks[k].blocks, ks[k].entities)]) :
                   ks \in SeqsUpTo(PageKinds, MaxPages)}}

Instructions == {Undef, Null, Str(""), Str("Focus on payment terms"), Num(4200)}

DefaultInstructions == Str("Analyze this legal document thoroughly")

Envs ==
  [SKIP_LLM : {Undef, Str("true"), Str("false")}, GEMINI_API_KEY : {Undef, Str("key")}]

\* process.env.SKIP_LLM === 'true'
SkipLLMBoolean(e) == e.SKIP_LLM = Bool(TRUE)

SkipLLM(e) == e.SKIP_LLM = Str("true")

\* ocrData.ocr.map(...) or page.blocks.slice(...) throws a TypeError
MapThrows(ocr) == ~IsArray(ocr) \/ \E k \in DOMAIN ocr.a : ~IsArray(ocr.a[k].blocks)

Min(a, b) == IF a < b THEN a ELSE b

\* page.blocks.slice(0, 50)
SliceBlocksExclusive(blocks) == SubSeq(blocks, 1, Min(BlockCap - 1, Len(blocks)))

SliceBlocks(blocks) == SubSeq(blocks, 1, Min(BlockCap, Len(blocks)))

\* the input object placed in the prompt
Input(b) ==
  [meta |-> b.ocr_result.meta,
   ocr |-> [k \in DOMAIN b.ocr_result.ocr.a |->
              LET page == b.ocr_result.ocr.a[k]
              IN  [page |-> page.page,
                   text |-> page.text,
                   blocks |-> SliceBlocks(page.blocks.a),
                   entities |-> page.entities]],
   user_instructions |-> OrElse(b.user_instructions, DefaultInstructions)]

NoPayload == [t |-> "none"]

\* ------------------------------------------------------- the backend's text
\* A text is a sequence of tokens: an opening brace, a closing brace, a word
\* of prose (no brace, not white space), or the members of an object, which
\* stand for the well-formed text between the braces of the object v.
Tok(c) == [c |-> c, v |-> EmptyObject]

Members(v) == [c |-> "members", v |-> v]

ProseTokens == {Tok("w"), Tok("{"), Tok("}")}

Prose == SeqsUpTo(ProseTokens, MaxProse)

\* JSON.stringify of the object v
ObjectText(v) == <<Tok("{"), Members(v), Tok("}")>>

\* what the backend may put between its prose: nothing, {}, braces around
\* prose, an object cut off before its closing brace, an object
Cores ==
  {<<>>, <<Tok("{"), Tok("}")>>, <<Tok("{"), Tok("w"), Tok("}")>>,
   <<Tok("{"), Members(ValidSummary)>>}
  \cup {ObjectText(v) : v \in Bases}

FirstIndex(text, c) ==
  IF \E i \in DOMAIN text : text[i].c = c
  THEN CHOOSE i \in DOMAIN text : text[i].c = c /\ \A j \in 1..(i - 1) : text[j].c # c
  ELSE 0

LastIndex(text, c) ==
  IF \E i \in DOMAIN text : text[i].c = c
  THEN CHOOSE i \in DOMAIN text : text[i].c = c /\ \A j \in (i + 1)..Len(text) : text[j].c # c
  ELSE 0

\* text.match(/\{[\s\S]*\}/): from the first opening brace that has a closing
\* brace after it to the last closing brace of the text; <<>> for null
Match(text) ==
  LET i == FirstIndex(text, "{")
      j == LastIndex(text, "}")
  IN  IF i > 0 /\ j > i THEN SubSeq(text, i, j) ELSE <<>>

\* JSON.parse(jsonMatch[0]): braces around nothing or around the members of an
\* object parse, anything else is a SyntaxError
JsonParse(m) ==
  IF Len(m) = 3 /\ m[2].c = "members" THEN [ok |-> TRUE, value |-> m[2].v]
  ELSE IF Len(m) = 2 THEN [ok |-> TRUE, value |-> EmptyObject]
  ELSE [ok |-> FALSE, value |-> EmptyObject]

NoText == [t |-> "none"]

Rejected == [t |-> "rejected"]

Text(tokens) == [t |-> "text", a |-> tokens]

NoCandidate == [t |-> "none"]

NoResponse == [status |-> 0]

Json(status, summary) == [status |-> status, kind |-> "summary", body |-> summary]

JsonError(status, error, details) ==
  [status |-> status, kind |-> "error", body |-> [error |-> error, details |-> details]]

\* the catch of the parse and the outer catch of POST
ParseFailureRepaired == Json(200, validateAndNormalizeSummary(EmptyObject))

ParseFailure ==
  JsonError(500, "Summarization failed", Str("Failed to parse summary response"))

VARIABLES pc, body, env, llmCalls, candidate, response, renormalized, reference,
          riskColors, riskCategories

\* the input object sent to the backend and the text the backend answered
VARIABLES payload, backendText

\* the OCR route: position, request body, configuration, backend calls, response
VARIABLES ocrPc, ocrBody, ocrEnv, ocrCalls, ocrResponse

\* how many block and line entries the provider's reply held (kept for the
\* properties that speak of the reply; the route does not store it)
VARIABLE providerUnits

\* the provider's reply as the adapter received it, kept likewise
VARIABLE providerReply

summarizeVars == <<pc, body, env, llmCalls, candidate, response, renormalized, reference,
                   riskColors, riskCategories, payload, backendText>>

ocrVars == <<ocrPc, ocrBody, ocrEnv, ocrCalls, ocrResponse, providerUnits, providerReply>>

\* extractBoundingBox: its argument and what it returned
VARIABLES boundingPoly, boundingBox

\* the upload page: its React state and the runs of handleFileSelect
VARIABLES processingState, pageError, results, showReview, runs

\* the pipeline script runTest: its position, its requests, its results list
VARIABLES testPc, testRequests, testResults

\* CaptureScanner: whether it is mounted, its isInitializing and error state,
\* the runs of initializeScanner, scannerRef.current and the scanners the SDK
\* created
VARIABLES mounted, isInitializing, scannerError, effects, scannerRef, scanners

boxVars == <<boundingPoly, boundingBox>>

pageVars == <<processingState, pageError, results, showReview, runs>>

scriptVars == <<testPc, testRequests, testResults>>

scannerVars == <<mounted, isInitializing, scannerError, effects, scannerRef, scanners>>

clientVars == <<boxVars, pageVars, scriptVars, scannerVars>>

vars == <<summarizeVars, ocrVars, clientVars>>

NoBox == [t |-> "none"]

BoxIdle == boundingPoly = Undef /\ boundingBox = NoBox

NoResults == [ocrResult |-> Null, summaryResult |-> Null]

PageIdle ==
  /\ processingState = "idle"
  /\ pageError = Null
  /\ results = NoResults
  /\ showReview = FALSE
  /\ runs = <<>>

ScriptIdle ==
  /\ testPc = "idle"
  /\ testRequests = [ocr |-> 0, summarize |-> 0]
  /\ testResults = <<>>

ScannerIdle ==
  /\ mounted = FALSE
  /\ isInitializing = TRUE
  /\ scannerError = Null
  /\ effects = <<>>
  /\ scannerRef = 0
  /\ scanners = <<>>

ClientIdle == BoxIdle /\ PageIdle /\ ScriptIdle /\ ScannerIdle

SummarizeIdle ==
  /\ pc = "idle"
  /\ body = [ocr_result |-> Undef, user_instructions |-> Undef]
  /\ env = [SKIP_LLM |-> Undef, GEMINI_API_KEY |-> Undef]
  /\ llmCalls = 0
  /\ payload = NoPayload
  /\ backendText = NoText
  /\ candidate = NoCandidate
  /\ response = NoResponse
  /\ renormalized = NoCandidate
  /\ reference = NoCandidate
  /\ riskColors = <<>>
  /\ riskCategories = <<>>

NoReply == [t |-> "none"]

OcrIdle ==
  /\ ocrPc = "idle"
  /\ ocrBody = [document |-> Undef]
  /\ ocrEnv = [OCR_PROVIDER |-> Undef,
               GOOGLE_CLOUD_PROJECT_ID |-> Undef,
               GOOGLE_CLOUD_LOCATION |-> Undef,
               GOOGLE_DOCUMENT_AI_PROCESSOR_ID |-> Undef,
               GOOGLE_SERVICE_ACCOUNT_EMAIL |-> Undef,
               GOOGLE_PRIVATE_KEY |-> Undef,
               awsCredentials |-> FALSE]
  /\ ocrCalls = 0
  /\ ocrResponse = NoResponse
  /\ providerUnits = 0
  /\ providerReply = NoReply

Init ==
  /\ pc = "received"
  /\ body \in [ocr_result : OcrResults, user_instructions : {Undef}]
  /\ env \in Envs
  /\ llmCalls = 0
  /\ payload = NoPayload
  /\ backendText = NoText
  /\ candidate = NoCandidate
  /\ response = NoResponse
  /\ renormalized = NoCandidate
  /\ reference = NoCandidate
  /\ riskColors = <<>>
  /\ riskCategories = <<>>
  /\ OcrIdle
  /\ ClientIdle

\* POST up to the call of the backend (route.ts 90-150)
POST_Request ==
  /\ UNCHANGED <<ocrVars, clientVars>>
  /\ pc = "received"
  /\ UNCHANGED <<body, env, candidate, backendText, renormalized, reference, riskColors,
                 riskCategories>>
  /\ IF ~Truthy(body.ocr_result)
     THEN /\ response' = JsonError(400, "No OCR result provided", Undef)
          /\ pc' = "failed"
          /\ UNCHANGED <<llmCalls, payload>>
     ELSE IF SkipLLM(env)
     THEN /\ response' = Json(200, getMockSummary)
          /\ pc' = "responded"
          /\ UNCHANGED <<llmCalls, payload>>
     ELSE IF ~Truthy(body.ocr_result.meta) \/ ~Truthy(body.ocr_result.ocr)
     THEN /\ response' = JsonError(400, "Invalid OCR result structure", Undef)
          /\ pc' = "failed"
          /\ UNCHANGED <<llmCalls, payload>>
     ELSE IF ~Truthy(env.GEMINI_API_KEY)
     THEN /\ response' = Json(200, getMockSummary)
          /\ pc' = "responded"
          /\ UNCHANGED <<llmCalls, payload>>
     ELSE IF MapThrows(body.ocr_result.ocr)
     THEN /\ response' = JsonError(500, "Summarization failed", Str("TypeError"))
          /\ pc' = "failed"
          /\ UNCHANGED <<llmCalls, payload>>
     ELSE /\ llmCalls' = llmCalls + 1
          /\ payload' = Input(body)
          /\ pc' = "awaiting"
          /\ UNCHANGED response

\* the route from the backend's text to the response (route.ts 152-171)
Respond(text) ==
  /\ backendText' = Text(text)
  /\ LET jsonMatch == Match(text)
         parsed == JsonParse(jsonMatch)
     IN  IF Len(jsonMatch) = 0 \/ ~parsed.ok
         THEN /\ response' = ParseFailure
              /\ pc' = "failed"
              /\ UNCHANGED candidate
         ELSE /\ candidate' = parsed.value
              /\ response' = Json(200, validateAndNormalizeSummary(parsed.value))
              /\ pc' = "responded"

\* POST from the backend's reply to the response (route.ts 150-182): the call
\* rejects, or the backend answers an object with up to MaxEdits of its keys
\* replaced, or one of Cores between two stretches of prose
POST_Response ==
  /\ UNCHANGED <<ocrVars, clientVars>>
  /\ pc = "awaiting"
  /\ UNCHANGED <<body, env, llmCalls, payload, renormalized, reference, riskColors,
                 riskCategories>>
  /\ \/ /\ backendText' = Rejected
        /\ response' = JsonError(500, "Summarization failed", Str("backend error"))
        /\ pc' = "failed"
        /\ UNCHANGED candidate
     \/ \E base \in Bases, es \in [1..MaxEdits -> Edits] :
          Respond(ObjectText(ApplyEdits(base, es, MaxEdits)))
     \/ \E pre \in Prose, core \in Cores, post \in Prose :
          Respond(pre \o core \o post)

\* the normalizer applied to a Summary Result it produced or the mock
Renormalize ==
  /\ UNCHANGED <<ocrVars, clientVars>>
  /\ pc = "responded"
  /\ renormalized' = validateAndNormalizeSummary(response.body)
  /\ pc' = "renormalized"
  /\ UNCHANGED <<body, env, llmCalls, candidate, response, reference, riskColors, riskCategories, payload, backendText>>

\* getRiskColor of the review UI
getRiskColorStrict(score) ==
  IF score.n < 300 THEN "text-green-600 bg-green-50"
  ELSE IF score.n < 600 THEN "text-yellow-600 bg-yellow-50"
  ELSE "text-red-600 bg-red-50"

getRiskColor(score) ==
  IF score.n <= 300 THEN "text-green-600 bg-green-50"
  ELSE IF score.n <= 600 THEN "text-yellow-600 bg-yellow-50"
  ELSE "text-red-600 bg-red-50"

\* categorizeRisk of the test suite
categorizeRisk(score) ==
  IF score.n <= 300 THEN "low"
  ELSE IF score.n <= 600 THEN "medium"
  ELSE "high"

\* DocumentReview renders one coloured row per risk flag of the summary
Review ==
  /\ UNCHANGED <<ocrVars, clientVars>>
  /\ pc = "renormalized"
  /\ riskColors' = [i \in DOMAIN response.body.risk_flags.a |->
                      getRiskColor(response.body.risk_flags.a[i].score)]
  /\ pc' = "reviewed"
  /\ UNCHANGED <<body, env, llmCalls, candidate, response, renormalized, reference, riskCategories, payload, backendText>>

\* the test suite's reference categorization of the same scores
Categorize ==
  /\ UNCHANGED <<ocrVars, clientVars>>
  /\ pc = "reviewed"
  /\ riskCategories' = [i \in DOMAIN response.body.risk_flags.a |->
                          categorizeRisk(response.body.risk_flags.a[i].score)]
  /\ pc' = "categorized"
  /\ UNCHANGED <<body, env, llmCalls, candidate, response, renormalized, reference, riskColors, payload, backendText>>

\* the test suite's helper applied to the candidate the route normalized
TestValidate ==
  /\ UNCHANGED <<ocrVars, clientVars>>
  /\ pc = "categorized"
  /\ candidate # NoCandidate
  /\ reference' = validateSummary(candidate)
  /\ pc' = "tested"
  /\ UNCHANGED <<body, env, llmCalls, candidate, response, renormalized, riskColors, riskCategories, payload, backendText>>

Next ==
  \/ POST_Request
  \/ POST_Response
  \/ Renormalize
  \/ Review
  \/ Categorize
  \/ TestValidate

Spec == Init /\ [][Next]_vars

\* ------------------------------------------------------------ the OCR route
\* x?.name
Opt(x, name) == IF x = Undef THEN Undef ELSE x[name]

\* totalConfidence / confidenceCount, kept as the exact quotient num/den
Quotient(total, count) == [num |-> total, den |-> count]

EmptyExtraction == [blocks |-> <<>>, total |-> 0, count |-> 0]

\* the loop over page.blocks (prefix "block", PARAGRAPH) or page.lines (prefix
\* "line", LINE) of page index i, from unit n on, continuing the extraction acc
RECURSIVE ExtractUnitsCountAll(_, _, _, _, _, _)
ExtractUnitsCountAll(units, n, i, prefix, blockType, acc) ==
  IF n > Len(units) THEN acc
  ELSE IF ~Truthy(units[n].layout)
  THEN ExtractUnitsCountAll(units, n + 1, i, prefix, blockType,
                            [acc EXCEPT !.count = acc.count + 1])
  ELSE LET confidence == OrElse(units[n].layout.confidence, Num(0))
           block == [id |-> prefix \o "-" \o ToString(i) \o "-" \o ToString(Len(acc.blocks)),
                     confidence |-> confidence,
                     blockType |-> blockType]
       IN  ExtractUnitsCountAll(units, n + 1, i, prefix, blockType,
                                [blocks |-> Append(acc.blocks, block),
                                 total |-> acc.total + confidence.n,
                                 count |-> acc.count + 1])

RECURSIVE ExtractUnits(_, _, _, _, _, _)
ExtractUnits(units, n, i, prefix, blockType, acc) ==
  IF n > Len(units) THEN acc
  ELSE IF ~Truthy(units[n].layout)
  THEN ExtractUnits(units, n + 1, i, prefix, blockType, acc)
  ELSE LET confidence == OrElse(units[n].layout.confidence, Num(0))
           block == [id |-> prefix \o "-" \o ToString(i) \o "-" \o ToString(Len(acc.blocks)),
                     confidence |-> confidence,
                     blockType |-> blockType]
       IN  ExtractUnits(units, n + 1, i, prefix, blockType,
                        [blocks |-> Append(acc.blocks, block),
                         total |-> acc.total + confidence.n,
                         count |-> acc.count + 1])

\* document.pages?.length || 1
PageCount(document) ==
  IF document.pages = Undef \/ Len(document.pages.a) = 0 THEN 1 ELSE Len(document.pages.a)

\* document.pages?.[i]
PageAt(document, i) ==
  IF document.pages = Undef \/ i + 1 > Len(document.pages.a) THEN Undef
  ELSE document.pages.a[i + 1]

\* blocks.length === 0 && page?.lines
UseLinesAlways(paragraphs, page) == Truthy(Opt(page, "lines"))

UseLines(paragraphs, page) == Len(paragraphs.blocks) = 0 /\ Truthy(Opt(page, "lines"))

NaN == [t |-> "number", k |-> "NaN", n |-> 0]

\* Number(x) for the values a page reference takes
ToNumber(x) ==
  CASE x.t = "number" -> x
    [] x.t = "null" -> Num(0)
    [] x.t = "string" /\ x.s = "" -> Num(0)
    [] x.t = "string" /\ x.s = "0" -> Num(0)
    [] x.t = "string" /\ x.s = "1" -> Num(100)
    [] x.t = "string" /\ x.s = "2" -> Num(200)
    [] OTHER -> NaN

\* entity.pageAnchor?.pageRefs?.[0]?.page
EntityPage(entity) ==
  LET pageRefs == Opt(entity.pageAnchor, "pageRefs")
  IN  IF pageRefs = Undef \/ Len(pageRefs.a) = 0 THEN Undef ELSE pageRefs.a[1].page

\* entityPage === undefined || Number(entityPage) === i
OnPageOneBased(entityPage, i) == entityPage = Undef \/ ToNumber(entityPage) = Num(100 * (i + 1))

OnPage(entityPage, i) == entityPage = Undef \/ ToNumber(entityPage) = Num(100 * i)

\* the loop over document.entities for page index i, from entity n on
RECURSIVE PageEntities(_, _, _, _)
PageEntities(entities, n, i, acc) ==
  IF n > Len(entities) THEN acc
  ELSE IF OnPage(EntityPage(entities[n]), i)
  THEN PageEntities(entities, n + 1, i,
                    Append(acc, [type |-> OrElse(entities[n].type, Str("UNKNOWN")),
                                 text |-> OrElse(entities[n].mentionText, Str("")),
                                 page |-> i + 1,
                                 confidence |-> OrElse(entities[n].confidence, Num(0)),
                                 mentionText |-> entities[n].mentionText]))
  ELSE PageEntities(entities, n + 1, i, acc)

\* one iteration of the page loop of processWithGoogleDocumentAI
GooglePage(document, i) ==
  LET page == PageAt(document, i)
      paragraphs ==
        IF Truthy(Opt(page, "blocks"))
        THEN ExtractUnits(page.blocks.a, 1, i, "block", "PARAGRAPH", EmptyExtraction)
        ELSE EmptyExtraction
      all ==
        IF UseLines(paragraphs, page)
        THEN ExtractUnits(page.lines.a, 1, i, "line", "LINE", paragraphs)
        ELSE paragraphs
  IN  [page |-> i + 1,
       blocks |-> all.blocks,
       entities |-> IF Truthy(document.entities)
                    THEN PageEntities(document.entities.a, 1, i, <<>>)
                    ELSE <<>>,
       confidence |-> IF all.count > 0 THEN Quotient(all.total, all.count)
                      ELSE Quotient(0, 1)]

GoogleResultRawCount(document) ==
  [meta |-> [pages |-> IF document.pages = Undef THEN 0 ELSE Len(document.pages.a),
             provider |-> "google-document-ai"],
   ocr |-> [k \in 1..PageCount(document) |-> GooglePage(document, k - 1)]]

\* processWithGoogleDocumentAI from the provider's document on
GoogleResult(document) ==
  [meta |-> [pages |-> PageCount(document), provider |-> "google-document-ai"],
   ocr |-> [k \in 1..PageCount(document) |-> GooglePage(document, k - 1)]]

\* the loop over response.Blocks of processWithAWSTextract, LINE blocks only
RECURSIVE ExtractLines(_, _, _)
ExtractLines(Blocks, n, acc) ==
  IF n > Len(Blocks) THEN acc
  ELSE IF Blocks[n].BlockType = "LINE" /\ Truthy(Blocks[n].Text)
  THEN LET confidence == IF Truthy(Blocks[n].Confidence)
                         THEN Num(Blocks[n].Confidence.n \div 100) ELSE Num(0)
           block == [id |-> OrElse(Blocks[n].Id,
                                   Str("block-" \o ToString(Len(acc.blocks)))).s,
                     confidence |-> confidence,
                     blockType |-> "LINE"]
       IN  ExtractLines(Blocks, n + 1,
                        [blocks |-> Append(acc.blocks, block),
                         total |-> acc.total + confidence.n,
                         count |-> acc.count + 1])
  ELSE ExtractLines(Blocks, n + 1, acc)

\* processWithAWSTextract from the provider's block list on
AWSResult(Blocks) ==
  LET all == ExtractLines(Blocks, 1, EmptyExtraction)
  IN  [meta |-> [pages |-> 1, provider |-> "aws-textract"],
       ocr |-> <<[page |-> 1,
                  blocks |-> all.blocks,
                  confidence |-> IF all.count > 0 THEN Quotient(all.total, all.count)
                                 ELSE Quotient(0, 1)]>>]

\* what the providers answer
GoogleLayouts ==
  {Undef} \cup [t : {"object"}, confidence : {Undef, Num(90), Num(60)}]

GoogleBlocks == {[layout |-> l] : l \in GoogleLayouts}

GoogleLines ==
  {[layout |-> l] : l \in {Undef} \cup [t : {"object"}, confidence : {Num(150)}]}

GooglePages ==
  [t : {"object"},
   blocks : {Undef} \cup {Arr(a) : a \in SeqsUpTo(GoogleBlocks, MaxBlocks)},
   lines : {Undef} \cup {Arr(a) : a \in SeqsUpTo(GoogleLines, MaxLines)}]

GoogleDocuments ==
  {Undef} \cup
  [t : {"object"}, pages : {Undef} \cup {Arr(a) : a \in SeqsUpTo(GooglePages, MaxPages)},
   entities : {Undef}]

\* document-level entities: without a page anchor, with an anchor that holds
\* no reference, and with a reference to page index 0, 1 or 2
PageAnchors ==
  {Undef, [t |-> "object", pageRefs |-> Undef], [t |-> "object", pageRefs |-> Arr(<<>>)]}
  \cup {[t |-> "object", pageRefs |-> Arr(<<[page |-> p]>>)] :
          p \in {Num(0), Num(100), Str("1"), Num(200)}}

GoogleEntities ==
  [type : {Undef}, mentionText : {Undef, Str("Acme Corp")}, confidence : {Num(90)},
   pageAnchor : PageAnchors]

\* documents that hold entities, their pages holding one paragraph or nothing
EntityDocuments ==
  [t : {"object"},
   pages : {Undef} \cup
           {Arr(a) : a \in SeqsUpTo({[t |-> "object", blocks |-> Undef, lines |-> Undef],
                                     [t |-> "object",
                                      blocks |-> Arr(<<[layout |-> [t |-> "object",
                                                                    confidence |-> Num(90)]]>>),
                                      lines |-> Undef]}, MaxPages)},
   entities : {Arr(a) : a \in SeqsUpTo(GoogleEntities, MaxEntities)}]

TextractBlocks ==
  {[BlockType |-> "LINE", Text |-> Str("Line one"), Confidence |-> Num(9500), Id |-> Str("a1")],
   [BlockType |-> "LINE", Text |-> Str("Line two"), Confidence |-> Num(8000), Id |-> Undef],
   [BlockType |-> "LINE", Text |-> Str("Line three"), Confidence |-> Undef, Id |-> Str("block-1")],
   [BlockType |-> "LINE", Text |-> Undef, Confidence |-> Num(9500), Id |-> Str("a4")],
   [BlockType |-> "WORD", Text |-> Str("Line"), Confidence |-> Num(9900), Id |-> Str("a5")],
   [BlockType |-> "LINE", Text |-> Str("Line six"), Confidence |-> Num(15000), Id |-> Str("a6")]}

TextractResponses == {Undef} \cup {Arr(a) : a \in SeqsUpTo(TextractBlocks, MaxBlocks)}

OcrDocuments == {Undef, Str(""), Str("JVBERi0xLjQ="), Str("%not base64%"), Num(4200)}

\* awsCredentials: whether the Textract client's default credential chain
\* finds credentials (the route passes none itself)
OcrEnvs ==
  [OCR_PROVIDER : {Undef, Str("google"), Str("aws")},
   GOOGLE_CLOUD_PROJECT_ID : {Undef, Str("project")},
   GOOGLE_CLOUD_LOCATION : {Undef, Str("us")},
   GOOGLE_DOCUMENT_AI_PROCESSOR_ID : {Undef, Str("processor")},
   GOOGLE_SERVICE_ACCOUNT_EMAIL : {Undef, Str("sa@project.iam")},
   GOOGLE_PRIVATE_KEY : {Undef, Str("key")},
   awsCredentials : BOOLEAN]

\* !projectId || !location || !processorId
ConfigurationMissing(e) ==
  \/ ~Truthy(e.GOOGLE_CLOUD_PROJECT_ID)
  \/ ~Truthy(e.GOOGLE_CLOUD_LOCATION)
  \/ ~Truthy(e.GOOGLE_DOCUMENT_AI_PROCESSOR_ID)

CredentialsMissingBoth(e) ==
  ~Truthy(e.GOOGLE_SERVICE_ACCOUNT_EMAIL) /\ ~Truthy(e.GOOGLE_PRIVATE_KEY)

\* !GOOGLE_SERVICE_ACCOUNT_EMAIL || !GOOGLE_PRIVATE_KEY
CredentialsMissing(e) ==
  ~Truthy(e.GOOGLE_SERVICE_ACCOUNT_EMAIL) \/ ~Truthy(e.GOOGLE_PRIVATE_KEY)

RECURSIVE CountUnits(_, _)
CountUnits(pages, n) ==
  IF n = 0 THEN 0
  ELSE CountUnits(pages, n - 1)
       + (IF pages[n].blocks = Undef THEN 0 ELSE Len(pages[n].blocks.a))
       + (IF pages[n].lines = Undef THEN 0 ELSE Len(pages[n].lines.a))

\* the block and line entries of a Document AI document
GoogleUnits(document) ==
  IF document.pages = Undef THEN 0 ELSE CountUnits(document.pages.a, Len(document.pages.a))

OcrJson(result) == [status |-> 200, kind |-> "ocr", body |-> result]

OcrFailed(details) == JsonError(500, "OCR processing failed", Str(details))

InitOCR ==
  /\ pc = "idle"
  /\ body = [ocr_result |-> Undef, user_instructions |-> Undef]
  /\ env = [SKIP_LLM |-> Undef, GEMINI_API_KEY |-> Undef]
  /\ llmCalls = 0
  /\ payload = NoPayload
  /\ backendText = NoText
  /\ candidate = NoCandidate
  /\ response = NoResponse
  /\ renormalized = NoCandidate
  /\ reference = NoCandidate
  /\ riskColors = <<>>
  /\ riskCategories = <<>>
  /\ ocrPc = "received"
  /\ ocrBody \in [document : OcrDocuments]
  /\ ocrEnv \in OcrEnvs
  /\ ocrCalls = 0
  /\ ocrResponse = NoResponse
  /\ providerUnits = 0
  /\ providerReply = NoReply
  /\ ClientIdle

\* OCR_PROVIDER = process.env.OCR_PROVIDER || 'google'
OCR_PROVIDER == OrElse(ocrEnv.OCR_PROVIDER, Str("google"))

\* POST of the OCR route up to the call of the provider (route.ts 46-83 with
\* 115-148 for Google and 264-282 for Textract)
OCR_Request ==
  /\ ocrPc = "received"
  /\ UNCHANGED <<summarizeVars, clientVars, ocrBody, ocrEnv, providerUnits, providerReply>>
  /\ IF ~Truthy(ocrBody.document)
     THEN /\ ocrResponse' = JsonError(400, "No document provided", Undef)
          /\ ocrPc' = "failed"
          /\ UNCHANGED ocrCalls
     ELSE IF ocrBody.document.t # "string"
     THEN /\ ocrResponse' = JsonError(400, "Invalid base64 document", Undef)
          /\ ocrPc' = "failed"
          /\ UNCHANGED ocrCalls
     ELSE IF OCR_PROVIDER = Str("aws")
     THEN /\ ocrCalls' = ocrCalls + 1
          /\ ocrPc' = "awaiting-aws"
          /\ UNCHANGED ocrResponse
     ELSE IF ConfigurationMissing(ocrEnv)
     THEN /\ ocrResponse' = OcrFailed("Missing Google Cloud configuration")
          /\ ocrPc' = "failed"
          /\ UNCHANGED ocrCalls
     ELSE IF CredentialsMissing(ocrEnv)
     THEN /\ ocrResponse' = OcrFailed("Missing Google Cloud credentials")
          /\ ocrPc' = "failed"
          /\ UNCHANGED ocrCalls
     ELSE /\ ocrCalls' = ocrCalls + 1
          /\ ocrPc' = "awaiting-google"
          /\ UNCHANGED ocrResponse

\* client.processDocument rejects, or resolves and the adapter parses it
\* (route.ts 148-246)
OCR_GoogleResponse ==
  /\ ocrPc = "awaiting-google"
  /\ UNCHANGED <<summarizeVars, clientVars, ocrBody, ocrEnv, ocrCalls>>
  /\ \/ /\ ocrResponse' = OcrFailed("provider error")
        /\ ocrPc' = "failed"
        /\ UNCHANGED <<providerUnits, providerReply>>
     \/ \E document \in GoogleDocuments :
          IF ~Truthy(document)
          THEN /\ ocrResponse' = OcrFailed("No document returned from Document AI")
               /\ ocrPc' = "failed"
               /\ UNCHANGED <<providerUnits, providerReply>>
          ELSE /\ ocrResponse' = OcrJson(GoogleResult(document))
               /\ ocrPc' = "responded"
               /\ providerUnits' = GoogleUnits(document)
               /\ providerReply' = document
     \/ \E document \in EntityDocuments :
          /\ ocrResponse' = OcrJson(GoogleResult(document))
          /\ ocrPc' = "responded"
          /\ providerUnits' = GoogleUnits(document)
          /\ providerReply' = document

\* client.send rejects (it always does when the client finds no credentials),
\* or resolves and the adapter parses it (route.ts 282-362)
OCR_AWSResponse ==
  /\ ocrPc = "awaiting-aws"
  /\ UNCHANGED <<summarizeVars, clientVars, ocrBody, ocrEnv, ocrCalls>>
  /\ \/ /\ ocrResponse' = OcrFailed("provider error")
        /\ ocrPc' = "failed"
        /\ UNCHANGED <<providerUnits, providerReply>>
     \/ /\ ocrEnv.awsCredentials
        /\ \E Blocks \in TextractResponses :
             IF ~Truthy(Blocks)
             THEN /\ ocrResponse' = OcrFailed("No blocks returned from Textract")
                  /\ ocrPc' = "failed"
                  /\ UNCHANGED <<providerUnits, providerReply>>
             ELSE /\ ocrResponse' = OcrJson(AWSResult(Blocks.a))
                  /\ ocrPc' = "responded"
                  /\ providerUnits' = Len(Blocks.a)
                  /\ providerReply' = Blocks

NextOCR ==
  \/ OCR_Request
  \/ OCR_GoogleResponse
  \/ OCR_AWSResponse

SpecOCR == InitOCR /\ [][NextOCR]_vars

\* ------------------------------------------- requests of every shape
\* the summarize route up to its call of the backend, for requests whose pages
\* reach the block cap and for every kind of instruction
InitRequest ==
  /\ pc = "received"
  /\ body \in [ocr_result : PagedOcrResults, user_instructions : Instructions]
  /\ env \in Envs
  /\ llmCalls = 0
  /\ payload = NoPayload
  /\ backendText = NoText
  /\ candidate = NoCandidate
  /\ response = NoResponse
  /\ renormalized = NoCandidate
  /\ reference = NoCandidate
  /\ riskColors = <<>>
  /\ riskCategories = <<>>
  /\ OcrIdle
  /\ ClientIdle

SpecRequest == InitRequest /\ [][POST_Request]_vars

\* ------------------------------------------------ both routes, one deployment
\* a summarize request and an OCR request under every configuration; the
\* Document AI reply, which comes after the checks of the configuration, is
\* left to SpecOCR
InitAsymmetry ==
  /\ pc = "received"
  /\ body \in [ocr_result : {o \in OcrResults : o # Undef /\ o.meta # Undef /\ o.ocr # Undef},
               user_instructions : {Undef}]
  /\ env \in Envs
  /\ llmCalls = 0
  /\ payload = NoPayload
  /\ backendText = NoText
  /\ candidate = NoCandidate
  /\ response = NoResponse
  /\ renormalized = NoCandidate
  /\ reference = NoCandidate
  /\ riskColors = <<>>
  /\ riskCategories = <<>>
  /\ ocrPc = "received"
  /\ ocrBody \in [document : OcrDocuments]
  /\ ocrEnv \in OcrEnvs
  /\ ocrCalls = 0
  /\ ocrResponse = NoResponse
  /\ providerUnits = 0
  /\ providerReply = NoReply
  /\ ClientIdle

NextAsymmetry ==
  \/ POST_Request
  \/ OCR_Request
  \/ OCR_AWSResponse

SpecAsymmetry == InitAsymmetry /\ [][NextAsymmetry]_vars

\* ------------------------------------------------------------------ claims
\* the route answered with the normalization of a parsed backend object
Normalized == response.status = 200 /\ candidate # NoCandidate

\* a number within [0,1]
InUnitRange(x) == x.t = "number" /\ x.k = "finite" /\ x.n >= 0 /\ x.n <= 100

NonEmptyString(x) == x.t = "string" /\ x.s # ""

\* C1: whatever the candidate, the normalizer's output has five array fields
\* that are sequences, a confidence_score that is a number within [0,1] and a
\* short_summary that is a non-empty string.
C1_OutputInvariants ==
  Normalized =>
    /\ \A f \in ArrayFields : IsArray(response.body[f])
    /\ InUnitRange(response.body.confidence_score)
    /\ NonEmptyString(response.body.short_summary)

\* C2: normalizing the normalizer's output returns it unchanged, field by field.
C2_Idempotent ==
  (pc = "renormalized" /\ candidate # NoCandidate) =>
    \A f \in Fields : renormalized[f] = response.body[f]

C2_Witness ==
  /\ pc = "renormalized"
  /\ candidate # NoCandidate
  /\ candidate.confidence_score = Num(15000)
  /\ candidate.short_summary = Undef
  /\ renormalized.confidence_score = Num(100)
  /\ renormalized.short_summary = RoutePlaceholder

\* C3: confidence_score is the candidate's number when it lies in [0,1], 1 when
\* it is a number above 1, 0 when it is a number below 0, and 0.5 when the
\* candidate has none or holds a value that is not a number.
C3_ConfidenceScore ==
  Normalized =>
    LET x == candidate.confidence_score
        y == response.body.confidence_score
    IN  /\ InUnitRange(x) => y = x
        /\ (x.t = "number" /\ (x.k = "Infinity" \/ (x.k = "finite" /\ x.n > 100))) => y = Num(100)
        /\ (x.t = "number" /\ (x.k = "-Infinity" \/ (x.k = "finite" /\ x.n < 0))) => y = Num(0)
        /\ x.t # "number" => y = Num(50)

C3_Witness ==
  /\ Normalized
  /\ candidate.confidence_score = Num(-50)
  /\ response.body.confidence_score = Num(0)

\* C4: each array field of the output is the candidate's value, elements and
\* order untouched, when that value is a sequence, and the empty sequence when
\* the key is absent or holds anything else.
C4_ArrayFields ==
  Normalized =>
    \A f \in ArrayFields :
      response.body[f] = IF candidate[f].t = "array" THEN candidate[f] ELSE Arr(<<>>)

C4_Witness ==
  /\ Normalized
  /\ candidate.parties.t = "array"
  /\ Len(candidate.parties.a) = 2
  /\ candidate.parties.a[1] # candidate.parties.a[2]
  /\ response.body.parties = candidate.parties
  /\ candidate.obligations.t = "string"
  /\ response.body.obligations = Arr(<<>>)

\* C5: payment_terms, termination_clauses and governing_law of the output are
\* each null or a non-empty string, never an empty string or a non-string.
C5_NullableStrings ==
  Normalized =>
    \A f \in NullableFields : response.body[f] = Null \/ NonEmptyString(response.body[f])

\* C6: an absent or falsy short_summary becomes the placeholder the test suite
\* asserts, 'Unable to generate summary'; a truthy one is returned unchanged.
C6_Placeholder ==
  Normalized =>
    response.body.short_summary =
      IF Truthy(candidate.short_summary) THEN candidate.short_summary ELSE TestPlaceholder

\* C7: every suggested redaction of a returned Summary Result, backend path or
\* mock path, has start_char < end_char and page >= 1.
C7_RedactionsValid ==
  (response.status = 200) =>
    \A i \in DOMAIN response.body.suggested_redactions.a :
      LET r == response.body.suggested_redactions.a[i]
      IN  r.start_char.n < r.end_char.n /\ r.page.n >= 100

\* C8: every risk flag of a returned Summary Result, backend path or mock path,
\* has an integer score within [1,10].
C8_RiskScoreRange ==
  (response.status = 200) =>
    \A i \in DOMAIN response.body.risk_flags.a :
      LET score == response.body.risk_flags.a[i].score
      IN  score.n % 100 = 0 /\ score.n >= 100 /\ score.n <= 1000

SeverityClass(category) ==
  CASE category = "low" -> "text-green-600 bg-green-50"
    [] category = "medium" -> "text-yellow-600 bg-yellow-50"
    [] OTHER -> "text-red-600 bg-red-50"

\* C9: for every integer score 1..10 the review UI's colour class is the one of
\* the category the test suite's categorizeRisk gives it, and that category is
\* low up to 3, medium for 4..6 and high from 7.
C9_RiskCategories ==
  (pc \in {"categorized", "tested"}) =>
    \A i \in DOMAIN riskColors :
      LET score == response.body.risk_flags.a[i].score IN
      (score.n % 100 = 0 /\ score.n >= 100 /\ score.n <= 1000) =>
        /\ riskColors[i] = SeverityClass(riskCategories[i])
        /\ riskCategories[i] = (IF score.n <= 300 THEN "low"
                                ELSE IF score.n >= 700 THEN "high" ELSE "medium")

C9_Witness ==
  /\ pc = "categorized"
  /\ Len(riskColors) = 2
  /\ response.body.risk_flags.a[1].score = Num(300)
  /\ riskColors[1] = "text-green-600 bg-green-50"
  /\ response.body.risk_flags.a[2].score = Num(700)
  /\ riskColors[2] = "text-red-600 bg-red-50"

RECURSIVE SumConfidence(_, _)
SumConfidence(blocks, n) ==
  IF n = 0 THEN 0 ELSE SumConfidence(blocks, n - 1) + blocks[n].confidence.n

\* C10: the confidence of every page of an OCR Result, from either adapter, is
\* the arithmetic mean of the confidences of exactly the blocks the page lists
\* (confidence * number of blocks = sum of their confidences), and 0 when the
\* page lists no block.
C10_PageConfidence ==
  (ocrResponse.status = 200) =>
    \A k \in DOMAIN ocrResponse.body.ocr :
      LET p == ocrResponse.body.ocr[k] IN
      /\ p.confidence.den > 0
      /\ IF Len(p.blocks) = 0 THEN p.confidence.num = 0
         ELSE p.confidence.num * Len(p.blocks) = SumConfidence(p.blocks, Len(p.blocks)) * p.confidence.den

C10_Witness ==
  /\ ocrResponse.status = 200
  /\ ocrResponse.body.meta.provider = "google-document-ai"
  /\ Len(ocrResponse.body.ocr) = 2
  /\ Len(ocrResponse.body.ocr[1].blocks) = 2
  /\ ocrResponse.body.ocr[1].confidence = Quotient(150, 2)
  /\ Len(ocrResponse.body.ocr[2].blocks) = 0
  /\ ocrResponse.body.ocr[2].confidence = Quotient(0, 1)

\* C11: every block of an OCR Result, from either adapter, has a confidence
\* within [0,1], provider values outside that range being clamped into it.
C11_BlockConfidenceRange ==
  (ocrResponse.status = 200) =>
    \A k \in DOMAIN ocrResponse.body.ocr :
      \A b \in DOMAIN ocrResponse.body.ocr[k].blocks :
        InUnitRange(ocrResponse.body.ocr[k].blocks[b].confidence)

\* C12: a provider reply with no block and no line entry at all never ends in
\* a successful OCR Result.
C12_NoContentIsFailure ==
  (ocrPc = "responded" /\ providerUnits = 0) => ocrResponse.status # 200

\* C13: meta.pages of an OCR Result is the number of its page results, and the
\* k-th page result has page number k.
C13_PagesInOrder ==
  (ocrResponse.status = 200) =>
    /\ ocrResponse.body.meta.pages = Len(ocrResponse.body.ocr)
    /\ \A k \in DOMAIN ocrResponse.body.ocr : ocrResponse.body.ocr[k].page = k

C13_Witness ==
  /\ ocrResponse.status = 200
  /\ ocrResponse.body.meta.provider = "google-document-ai"
  /\ ocrResponse.body.meta.pages = 2
  /\ ocrResponse.body.ocr[2].page = 2
  /\ Len(ocrResponse.body.ocr[2].blocks) > 0

C13_WitnessNoPages ==
  /\ ocrResponse.status = 200
  /\ ocrResponse.body.meta.provider = "google-document-ai"
  /\ providerUnits = 0
  /\ ocrResponse.body.meta.pages = 1

\* an OCR Result as the summarize route expects it: meta and a page array
ValidOcrResult(o) ==
  /\ Truthy(o)
  /\ Truthy(o.meta)
  /\ IsArray(o.ocr)
  /\ \A k \in DOMAIN o.ocr.a : IsArray(o.ocr.a[k].blocks)

\* C14: with SKIP_LLM = 'true', a summarize request with a valid OCR Result is
\* answered with the fixed mock summary (confidence_score 0.95, parties not
\* empty), whatever its pages and instructions, and the backend is not called.
C14_SkipModeMock ==
  (pc # "received" /\ env.SKIP_LLM = Str("true") /\ ValidOcrResult(body.ocr_result)) =>
    /\ response = Json(200, getMockSummary)
    /\ response.body.confidence_score = Num(95)
    /\ Len(response.body.parties.a) > 0
    /\ llmCalls = 0
    /\ payload = NoPayload

C14_Witness ==
  /\ pc = "responded"
  /\ env = [SKIP_LLM |-> Str("true"), GEMINI_API_KEY |-> Str("key")]
  /\ ValidOcrResult(body.ocr_result)
  /\ Len(body.ocr_result.ocr.a) = 2
  /\ Len(body.ocr_result.ocr.a[2].blocks.a) > BlockCap
  /\ body.user_instructions = Str("Focus on payment terms")
  /\ response = Json(200, getMockSummary)

\* the invariants of a Summary Result
SummaryInvariants(s) ==
  /\ NonEmptyString(s.short_summary)
  /\ \A f \in ArrayFields : IsArray(s[f])
  /\ \A f \in NullableFields : s[f] = Null \/ NonEmptyString(s[f])
  /\ InUnitRange(s.confidence_score)
  /\ \A i \in DOMAIN s.risk_flags.a :
       LET score == s.risk_flags.a[i].score
       IN  score.t = "number" /\ score.k = "finite" /\ score.n % 100 = 0
           /\ score.n >= 100 /\ score.n <= 1000
  /\ \A i \in DOMAIN s.suggested_redactions.a :
       LET r == s.suggested_redactions.a[i]
       IN  r.page.n >= 100 /\ r.start_char.n < r.end_char.n

\* C15: the normalizer returns the mock summary unchanged in every field, and
\* the mock, which the route returns without normalizing it, satisfies the
\* invariants of a Summary Result.
C15_MockFixedPoint ==
  (pc = "renormalized" /\ candidate = NoCandidate) =>
    /\ response.body = getMockSummary
    /\ \A f \in Fields : renormalized[f] = response.body[f]
    /\ SummaryInvariants(response.body)

C15_Witness ==
  /\ pc = "renormalized"
  /\ candidate = NoCandidate
  /\ llmCalls = 0
  /\ renormalized.confidence_score = Num(95)
  /\ Len(renormalized.risk_flags.a) = 2

\* C16: a summarize request whose ocr_result is missing, or has no meta, or
\* has no ocr page array, is answered with a 400 error under every
\* configuration, and the backend is not called for it.
C16_MalformedIs400 ==
  (pc # "received" /\ ~(/\ Truthy(body.ocr_result)
                        /\ Truthy(body.ocr_result.meta)
                        /\ IsArray(body.ocr_result.ocr))) =>
    /\ response.status = 400
    /\ response.kind = "error"
    /\ llmCalls = 0

\* the environment variables the Document AI adapter requires
GoogleVariables ==
  {"GOOGLE_CLOUD_PROJECT_ID", "GOOGLE_CLOUD_LOCATION", "GOOGLE_DOCUMENT_AI_PROCESSOR_ID",
   "GOOGLE_SERVICE_ACCOUNT_EMAIL", "GOOGLE_PRIVATE_KEY"}

\* the OCR request holds a document, and the backend it selects lacks a
\* processor identifier or a credential
OcrUnconfigured ==
  /\ ocrBody.document.t = "string"
  /\ ocrBody.document.s # ""
  /\ IF ocrEnv.OCR_PROVIDER = Str("aws") THEN ~ocrEnv.awsCredentials
     ELSE \E v \in GoogleVariables : ocrEnv[v] = Undef

C17_WitnessTextract ==
  /\ response = Json(200, getMockSummary)
  /\ env.GEMINI_API_KEY = Undef
  /\ ocrEnv.OCR_PROVIDER = Str("aws")
  /\ ~ocrEnv.awsCredentials
  /\ ocrCalls = 1
  /\ ocrResponse = OcrFailed("provider error")

HasToken(text, c) == \E i \in DOMAIN text : text[i].c = c

\* C18: a backend text in which no JSON object can be parsed is answered with
\* the 500 error and is never turned into a Summary Result; a text that parses
\* to an object, however incomplete or wrong-typed, is never answered with an
\* error but with the normalization of that object.
C18_ParseFailureOrRepair ==
  (backendText.t = "text") =>
    LET text == backendText.a
        jsonMatch == Match(text)
    IN  /\ IF Len(jsonMatch) = 0 \/ ~JsonParse(jsonMatch).ok
           THEN /\ response = JsonError(500, "Summarization failed",
                                        Str("Failed to parse summary response"))
                /\ candidate = NoCandidate
           ELSE /\ response.status = 200
                /\ response.kind = "summary"
                /\ response.body = validateAndNormalizeSummary(JsonParse(jsonMatch).value)
        /\ (~HasToken(text, "{") \/ ~HasToken(text, "}")) => response.status = 500
        /\ (Len(text) = 3 /\ text[1].c = "{" /\ text[2].c = "members" /\ text[3].c = "}") =>
             response = Json(200, validateAndNormalizeSummary(text[2].v))

C18_Witness ==
  /\ backendText.t = "text"
  /\ Len(backendText.a) = 3
  /\ backendText.a[2].c = "members"
  /\ backendText.a[2].v.parties = Str("none")
  /\ backendText.a[2].v.short_summary = Undef
  /\ response.status = 200
  /\ response.body.parties = Arr(<<>>)
  /\ response.body.short_summary = RoutePlaceholder

C18_WitnessFailure ==
  /\ backendText = Text(<<Tok("w"), Tok("{"), Tok("w"), Tok("}")>>)
  /\ response.status = 500
  /\ candidate = NoCandidate

\* the position of the members of the one object of a text made of prose, an
\* object and prose; 0 for any other text
ObjectAt(text) ==
  IF \E i \in 2..(Len(text) - 1) :
       /\ text[i].c = "members" /\ text[i - 1].c = "{" /\ text[i + 1].c = "}"
       /\ \A j \in DOMAIN text : text[j].c = "members" => j = i
  THEN CHOOSE i \in 2..(Len(text) - 1) :
         text[i].c = "members" /\ text[i - 1].c = "{" /\ text[i + 1].c = "}"
  ELSE 0

\* C19: for a backend text made of prose, one JSON object and more prose, the
\* route answers with the normalization of exactly that object, whatever the
\* prose holds.
C19_ObjectInProse ==
  (backendText.t = "text" /\ ObjectAt(backendText.a) > 0) =>
    response =
      Json(200, validateAndNormalizeSummary(backendText.a[ObjectAt(backendText.a)].v))

\* the same for prose that holds no brace, which the pattern does cope with
C19_BraceFreeProse ==
  (/\ backendText.t = "text"
   /\ ObjectAt(backendText.a) > 0
   /\ \A j \in DOMAIN backendText.a :
        backendText.a[j].c \in {"{", "}"} =>
          j \in {ObjectAt(backendText.a) - 1, ObjectAt(backendText.a) + 1}) =>
    response =
      Json(200, validateAndNormalizeSummary(backendText.a[ObjectAt(backendText.a)].v))

\* C20: the payload sent to the backend keeps every page in order; each page
\* carries the first min(50, n) of its n blocks in their order and all of its
\* entities; the instruction is the caller's string when there is one and the
\* default instruction when it is absent, null or the empty string.
C20_PayloadShape ==
  /\ pc = "awaiting" => payload # NoPayload
  /\ payload # NoPayload =>
       LET pages == body.ocr_result.ocr.a
           given == body.user_instructions
       IN  /\ payload.meta = body.ocr_result.meta
           /\ Len(payload.ocr) = Len(pages)
           /\ \A k \in DOMAIN pages :
                LET blocks == pages[k].blocks.a
                    sent == payload.ocr[k].blocks
                IN  /\ payload.ocr[k].page = pages[k].page
                    /\ payload.ocr[k].text = pages[k].text
                    /\ Len(sent) = IF Len(blocks) < 50 THEN Len(blocks) ELSE 50
                    /\ \A i \in DOMAIN sent : sent[i] = blocks[i]
                    /\ payload.ocr[k].entities = pages[k].entities
           /\ (given.t = "string" /\ given.s # "") => payload.user_instructions = given
           /\ (given \in {Undef, Null, Str("")}) =>
                payload.user_instructions = Str("Analyze this legal document thoroughly")

C20_Witness ==
  /\ pc = "awaiting"
  /\ Len(body.ocr_result.ocr.a) = 2
  /\ Len(body.ocr_result.ocr.a[1].blocks.a) = 1
  /\ Len(body.ocr_result.ocr.a[2].blocks.a) = 51
  /\ Len(payload.ocr[2].blocks) = 50
  /\ payload.ocr[2].blocks[50] = [id |-> 50]
  /\ payload.ocr[2].page = 2
  /\ Len(payload.ocr[2].entities.a) = 51
  /\ body.user_instructions = Str("")
  /\ payload.user_instructions = DefaultInstructions

C20_WitnessCallerInstruction ==
  /\ pc = "awaiting"
  /\ Len(payload.ocr) = 1
  /\ Len(payload.ocr[1].blocks) = 50
  /\ body.user_instructions = Str("Focus on payment terms")
  /\ payload.user_instructions = Str("Focus on payment terms")

\* the document of the OCR request is a string of base64 text
IsBase64(document) == document.t = "string" /\ document.s \in {"JVBERi0xLjQ="}

\* C21: an OCR request whose document is missing, or is not valid base64, is
\* answered with a 400 error and no OCR backend is called for it.
C21_BadDocumentIs400 ==
  (ocrPc \notin {"idle", "received"} /\ ~IsBase64(ocrBody.document)) =>
    /\ ocrResponse.status = 400
    /\ ocrCalls = 0

\* the part of it that the route does keep: a missing or empty document, or one
\* that is no string at all
C21_MissingDocumentIs400 ==
  (ocrPc \notin {"idle", "received"} /\ ~NonEmptyString(ocrBody.document)) =>
    /\ ocrResponse.status = 400
    /\ ocrResponse.kind = "error"
    /\ ocrCalls = 0

\* a response is a result with status 200, or an error object that carries an
\* error category and a details string
ResultOrFullError(r, kind) ==
  \/ r = NoResponse
  \/ r.status = 200 /\ r.kind = kind
  \/ /\ r.status \in {400, 500}
     /\ r.kind = "error"
     /\ r.body.error # ""
     /\ r.body.details.t = "string"

\* C22: every response of the OCR route and of the summarize route is a
\* complete result with a success status, or an error object with both an
\* error category and a details string, for 400 and 500 failures alike.
C22_ResultOrError ==
  /\ ResultOrFullError(response, "summary")
  /\ ResultOrFullError(ocrResponse, "ocr")

\* the same with the details string required of the 500 failures only
C22_DetailsOn500 ==
  \A r \in {response, ocrResponse} :
    /\ r.status \in {0, 200, 400, 500}
    /\ r.status = 500 => r.kind = "error" /\ r.body.error # "" /\ r.body.details.t = "string"
    /\ r.status = 400 => r.kind = "error" /\ r.body.error # "" /\ r.body.details = Undef

\* the OCR route answered with the result of the Document AI adapter
GoogleAnswered ==
  ocrResponse.status = 200 /\ ocrResponse.body.meta.provider = "google-document-ai"

\* the entity carries no page reference
Unreferenced(entity) ==
  \/ entity.pageAnchor = Undef
  \/ entity.pageAnchor.pageRefs = Undef
  \/ entity.pageAnchor.pageRefs.a = <<>>

\* the 1-based number of the page that the page reference p designates
DesignatedPage(p) ==
  CASE p = Num(0) -> 1
    [] p = Num(100) -> 2
    [] p = Str("1") -> 2
    [] OTHER -> 3

\* the entity belongs on the page numbered k
BelongsOn(entity, k) ==
  Unreferenced(entity) \/ DesignatedPage(entity.pageAnchor.pageRefs.a[1].page) = k

\* C24: in the Document AI adapter an entity with a page reference is listed
\* on the page the reference designates and on no other, an entity without
\* one is listed on every page, and the page field of a listed entity is the
\* number of the page it is listed on.
C24_EntityPages ==
  (GoogleAnswered /\ Truthy(providerReply.entities)) =>
    \A k \in DOMAIN ocrResponse.body.ocr :
      LET listed == ocrResponse.body.ocr[k].entities
          expected == SelectSeq(providerReply.entities.a, LAMBDA e : BelongsOn(e, k))
      IN  /\ Len(listed) = Len(expected)
          /\ \A m \in DOMAIN listed :
               /\ listed[m].mentionText = expected[m].mentionText
               /\ listed[m].page = k

C24_Witness ==
  /\ GoogleAnswered
  /\ Truthy(providerReply.entities)
  /\ Len(providerReply.entities.a) = 2
  /\ Unreferenced(providerReply.entities.a[1])
  /\ ~Unreferenced(providerReply.entities.a[2])
  /\ providerReply.entities.a[2].pageAnchor.pageRefs.a[1].page = Str("1")
  /\ Len(ocrResponse.body.ocr) = 2
  /\ Len(ocrResponse.body.ocr[1].entities) = 1
  /\ Len(ocrResponse.body.ocr[2].entities) = 2
  /\ ocrResponse.body.ocr[2].entities[2].page = 2

\* the provider's list of units holds a unit with a layout, which is where a
\* unit's text and confidence are
HasLayout(units) == units # Undef /\ \E n \in DOMAIN units.a : units.a[n].layout # Undef

\* the provider's page behind the page result numbered k; Undef when the
\* document holds no such page
ProviderPage(k) ==
  IF providerReply.pages = Undef \/ k > Len(providerReply.pages.a) THEN Undef
  ELSE providerReply.pages.a[k]

\* C25: in the Document AI adapter a page's blocks are all PARAGRAPH or all
\* LINE; LINE blocks are there only when the page yielded no paragraph; and a
\* page for which the provider supplied a paragraph or a line with a layout
\* has blocks.
C25_LineFallback ==
  GoogleAnswered =>
    \A k \in DOMAIN ocrResponse.body.ocr :
      LET blocks == ocrResponse.body.ocr[k].blocks
          page == ProviderPage(k)
      IN  /\ \A a \in DOMAIN blocks : \A b \in DOMAIN blocks :
               blocks[a].blockType = blocks[b].blockType
          /\ (\E a \in DOMAIN blocks : blocks[a].blockType = "LINE") =>
               (page # Undef /\ ~HasLayout(page.blocks) /\ HasLayout(page.lines))
          /\ (page # Undef /\ (HasLayout(page.blocks) \/ HasLayout(page.lines))) =>
               Len(blocks) > 0

C25_Witness ==
  /\ GoogleAnswered
  /\ Len(ocrResponse.body.ocr) = 2
  /\ ProviderPage(1).blocks # Undef
  /\ Len(ProviderPage(1).blocks.a) = 1
  /\ ~HasLayout(ProviderPage(1).blocks)
  /\ HasLayout(ProviderPage(1).lines)
  /\ Len(ocrResponse.body.ocr[1].blocks) = 1
  /\ ocrResponse.body.ocr[1].blocks[1].blockType = "LINE"
  /\ HasLayout(ProviderPage(2).blocks)
  /\ HasLayout(ProviderPage(2).lines)
  /\ Len(ocrResponse.body.ocr[2].blocks) = 2
  /\ ocrResponse.body.ocr[2].blocks[1].blockType = "PARAGRAPH"

\* the identifiers that the provider supplied are pairwise distinct (Document
\* AI supplies none)
SuppliedIdsDistinct ==
  providerReply.t = "array" =>
    \A m \in DOMAIN providerReply.a : \A n \in DOMAIN providerReply.a :
      (m # n /\ providerReply.a[m].Id # Undef) =>
        providerReply.a[m].Id # providerReply.a[n].Id

DistinctIds(blocks) ==
  \A a \in DOMAIN blocks : \A b \in DOMAIN blocks : a # b => blocks[a].id # blocks[b].id

\* C27: within every page of an OCR Result the block identifiers are pairwise
\* distinct, also when the provider supplies identifiers for some blocks only
\* and the adapter generates the others from the block's index.
C27_DistinctBlockIds ==
  (ocrResponse.status = 200 /\ SuppliedIdsDistinct) =>
    \A k \in DOMAIN ocrResponse.body.ocr : DistinctIds(ocrResponse.body.ocr[k].blocks)

\* what does hold: the identifiers are distinct when they are all generated
\* or all supplied
C27_DistinctWhenUniform ==
  (/\ ocrResponse.status = 200
   /\ SuppliedIdsDistinct
   /\ providerReply.t = "array" =>
        \/ \A m \in DOMAIN providerReply.a : providerReply.a[m].Id = Undef
        \/ \A m \in DOMAIN providerReply.a : providerReply.a[m].Id # Undef) =>
    \A k \in DOMAIN ocrResponse.body.ocr : DistinctIds(ocrResponse.body.ocr[k].blocks)

\* ---------------------------------------------------------------------------
\* extractBoundingBox (ocr/route.ts 380-394) as a function of its argument

\* a normalized coordinate the provider sends: omitted, 0.2 or 0.8
Coordinates == {Undef, Num(20), Num(80)}

\* an element of normalizedVertices: no vertex, or a vertex with x and y
Vertices == {Undef} \cup [t : {"object"}, x : Coordinates, y : Coordinates]

\* layout.boundingPoly: absent, without normalizedVertices, or with up to
\* MaxVertices of them
BoundingPolys ==
  {Undef}
    \cup [t : {"object"}, normalizedVertices : {Undef}]
    \cup [t : {"object"}, normalizedVertices : {Arr(v) : v \in SeqsUpTo(Vertices, MaxVertices)}]

ZeroBox == [x |-> Num(0), y |-> Num(0), width |-> Num(0), height |-> Num(0)]

extractBoundingBox(poly) ==
  LET normalizedVertices == Opt(poly, "normalizedVertices") IN
  IF ~Truthy(normalizedVertices) \/ Len(normalizedVertices.a) < 4
  THEN ZeroBox
  ELSE LET vertices == normalizedVertices.a
           x == OrElse(Opt(vertices[1], "x"), Num(0))
           y == OrElse(Opt(vertices[1], "y"), Num(0))
           width == Num(OrElse(Opt(vertices[2], "x"), Num(0)).n - x.n)
           height == Num(OrElse(Opt(vertices[3], "y"), Num(0)).n - y.n)
       IN [x |-> x, y |-> y, width |-> width, height |-> height]

InitBox ==
  /\ SummarizeIdle
  /\ OcrIdle
  /\ PageIdle
  /\ ScriptIdle
  /\ ScannerIdle
  /\ boundingPoly \in BoundingPolys
  /\ boundingBox = NoBox

ExtractBoundingBox ==
  /\ boundingBox = NoBox
  /\ boundingBox' = extractBoundingBox(boundingPoly)
  /\ UNCHANGED <<summarizeVars, ocrVars, pageVars, scriptVars, scannerVars, boundingPoly>>

SpecBox == InitBox /\ [][ExtractBoundingBox]_vars

\* the polygon has at least four vertices
FourVertices ==
  /\ Opt(boundingPoly, "normalizedVertices") # Undef
  /\ Len(boundingPoly.normalizedVertices.a) >= 4

\* the coordinate of vertex m (from 0), 0 when the vertex or the coordinate
\* is missing
Coordinate(m, name) ==
  LET vertex == boundingPoly.normalizedVertices.a[m + 1] IN
  IF vertex = Undef \/ vertex[name] = Undef THEN 0 ELSE vertex[name].n

\* a number of [0, 1], in hundredths
InUnit(v) == v.t = "number" /\ v.k = "finite" /\ 0 <= v.n /\ v.n <= 100

\* C26: extractBoundingBox returns the zero box for a polygon that is absent or
\* has fewer than four vertices, and otherwise x and y of vertex 0, width =
\* vertex 1's x - x and height = vertex 2's y - y with missing coordinates as 0;
\* every field is a number and lies in [0, 1] (the vertices are normalized).
C26_BoundingBox ==
  boundingBox # NoBox =>
    /\ ~FourVertices => boundingBox = ZeroBox
    /\ FourVertices =>
         /\ boundingBox.x = Num(Coordinate(0, "x"))
         /\ boundingBox.y = Num(Coordinate(0, "y"))
         /\ boundingBox.width = Num(Coordinate(1, "x") - Coordinate(0, "x"))
         /\ boundingBox.height = Num(Coordinate(2, "y") - Coordinate(0, "y"))
    /\ \A name \in {"x", "y", "width", "height"} : InUnit(boundingBox[name])

\* what does hold: the zero box, the four formulas, every field a finite
\* number, and x and y in [0, 1]
C26_BoxFormula ==
  boundingBox # NoBox =>
    /\ ~FourVertices => boundingBox = ZeroBox
    /\ FourVertices =>
         /\ boundingBox.x = Num(Coordinate(0, "x"))
         /\ boundingBox.y = Num(Coordinate(0, "y"))
         /\ boundingBox.width = Num(Coordinate(1, "x") - Coordinate(0, "x"))
         /\ boundingBox.height = Num(Coordinate(2, "y") - Coordinate(0, "y"))
    /\ \A name \in {"x", "y", "width", "height"} :
         boundingBox[name].t = "number" /\ boundingBox[name].k = "finite"
    /\ InUnit(boundingBox.x) /\ InUnit(boundingBox.y)

\* ---------------------------------------------------------------------------
\* The upload page (page.tsx) and the pipeline script runTest (jest.setup.ts):
\* the two clients that send a document through /api/ocr and /api/summarize

validTypes == {"application/pdf", "image/png", "image/jpeg", "image/tiff"}

\* 10 * 1024 * 1024
MaxFileSize == 10485760

\* the files a user picks or drops: of a valid type or not, within the size
\* limit or above it
Files == [type : {"application/pdf", "text/plain"}, size : {MaxFileSize, MaxFileSize + 1}]

\* a fetch that rejects: no response at all
NetworkError == [status |-> 0, kind |-> "rejected"]

\* what /api/ocr answers for the document of run r
OcrAnswers(r) ==
  {OcrJson([t |-> "object", meta |-> [t |-> "object", file |-> r], ocr |-> Arr(<<OcrPage(1, 1, 0)>>)]),
   JsonError(400, "No document provided", Undef),
   OcrFailed("Unknown error"),
   NetworkError}

\* what /api/summarize answers
SummarizeAnswers ==
  {Json(200, getMockSummary),
   JsonError(400, "No OCR result provided", Undef),
   JsonError(500, "Summarization failed", Str("Unknown error")),
   NetworkError}

\* response.ok
OkAlways(answer) == answer.status # 0

Ok(answer) == 200 <= answer.status /\ answer.status <= 299

\* the upload area is rendered unless the review is
ReviewShown == showReview /\ results.ocrResult # Null /\ results.summaryResult # Null

NewRun == [pc |-> "reading", ocrRequests |-> 0, summarizeRequests |-> 0,
           ocrResult |-> Null, summaryResult |-> Null]

\* handleFileSelect up to its first await
handleFileSelect(file) ==
  IF file.type \notin validTypes
  THEN /\ pageError' = Str("Invalid file type. Please upload a PDF or image file.")
       /\ UNCHANGED <<processingState, results, showReview, runs>>
  ELSE IF file.size > MaxFileSize
  THEN /\ pageError' = Str("File too large. Maximum size is 10MB.")
       /\ UNCHANGED <<processingState, results, showReview, runs>>
  ELSE /\ Len(runs) < MaxRuns
       /\ pageError' = Null
       /\ processingState' = "uploading"
       /\ runs' = Append(runs, NewRun)
       /\ UNCHANGED <<results, showReview>>

\* onChange of the file input, which is disabled unless the page is idle
PickFile ==
  /\ ~ReviewShown
  /\ processingState = "idle"
  /\ \E file \in Files : handleFileSelect(file)
  /\ UNCHANGED <<summarizeVars, ocrVars, boxVars, scriptVars, scannerVars>>

\* onDrop of the upload area
handleDrop ==
  /\ ~ReviewShown
  /\ \E file \in Files : handleFileSelect(file)
  /\ UNCHANGED <<summarizeVars, ocrVars, boxVars, scriptVars, scannerVars>>

\* the catch of handleFileSelect
Catch(r, message) ==
  /\ pageError' = message
  /\ processingState' = "error"
  /\ runs' = [runs EXCEPT ![r].pc = "failed"]
  /\ UNCHANGED <<results, showReview>>

\* await fileToBase64(file) settles: the OCR request is sent, or the reader
\* failed
FileRead(r) ==
  /\ runs[r].pc = "reading"
  /\ \/ /\ processingState' = "ocr"
        /\ runs' = [runs EXCEPT ![r].pc = "ocr", ![r].ocrRequests = @ + 1]
        /\ UNCHANGED <<pageError, results, showReview>>
     \/ Catch(r, Str("Processing failed"))
  /\ UNCHANGED <<summarizeVars, ocrVars, boxVars, scriptVars, scannerVars>>

\* await fetch('/api/ocr') settles
OcrReturns(r) ==
  /\ runs[r].pc = "ocr"
  /\ \E answer \in OcrAnswers(r) :
       IF answer = NetworkError
       THEN Catch(r, Str("Failed to fetch"))
       ELSE IF ~Ok(answer)
       THEN Catch(r, OrElse(Str(answer.body.error), Str("OCR processing failed")))
       ELSE /\ processingState' = "summarizing"
            /\ runs' = [runs EXCEPT ![r].pc = "summarizing",
                                    ![r].ocrResult = answer.body,
                                    ![r].summarizeRequests = @ + 1]
            /\ UNCHANGED <<pageError, results, showReview>>
  /\ UNCHANGED <<summarizeVars, ocrVars, boxVars, scriptVars, scannerVars>>

\* await fetch('/api/summarize') settles
SummarizeReturns(r) ==
  /\ runs[r].pc = "summarizing"
  /\ \E answer \in SummarizeAnswers :
       IF answer = NetworkError
       THEN Catch(r, Str("Failed to fetch"))
       ELSE IF ~Ok(answer)
       THEN Catch(r, OrElse(Str(answer.body.error), Str("AI analysis failed")))
       ELSE /\ results' = [ocrResult |-> runs[r].ocrResult, summaryResult |-> answer.body]
            /\ processingState' = "complete"
            /\ showReview' = TRUE
            /\ runs' = [runs EXCEPT ![r].pc = "complete", ![r].summaryResult = answer.body]
            /\ UNCHANGED pageError
  /\ UNCHANGED <<summarizeVars, ocrVars, boxVars, scriptVars, scannerVars>>

\* onClose of the review
handleReset ==
  /\ ReviewShown
  /\ processingState' = "idle"
  /\ pageError' = Null
  /\ results' = NoResults
  /\ showReview' = FALSE
  /\ UNCHANGED <<summarizeVars, ocrVars, boxVars, scriptVars, scannerVars, runs>>

\* the "Try again" button of the error display
TryAgain ==
  /\ ~ReviewShown
  /\ Truthy(pageError)
  /\ pageError' = Null
  /\ processingState' = "idle"
  /\ UNCHANGED <<summarizeVars, ocrVars, boxVars, scriptVars, scannerVars, results, showReview, runs>>

TestResult(step, success) == [step |-> step, success |-> success]

\* runTest up to its first await: the OCR request is sent
runTest ==
  /\ testPc = "start"
  /\ testPc' = "ocr"
  /\ testRequests' = [testRequests EXCEPT !.ocr = @ + 1]
  /\ UNCHANGED <<summarizeVars, ocrVars, boxVars, pageVars, scannerVars, testResults>>

\* the OCR request of runTest settles
runTest_OcrReturns ==
  /\ testPc = "ocr"
  /\ \E answer \in OcrAnswers(0) :
       IF answer = NetworkError \/ ~Ok(answer)
       THEN /\ testResults' = Append(testResults, TestResult("OCR", FALSE))
            /\ testPc' = "done"
            /\ UNCHANGED testRequests
       ELSE /\ testResults' = Append(testResults, TestResult("OCR", TRUE))
            /\ testPc' = "summarize"
            /\ testRequests' = [testRequests EXCEPT !.summarize = @ + 1]
  /\ UNCHANGED <<summarizeVars, ocrVars, boxVars, pageVars, scannerVars>>

\* the summarize request of runTest settles
runTest_SummarizeReturns ==
  /\ testPc = "summarize"
  /\ \E answer \in SummarizeAnswers :
       testResults' = Append(testResults,
                             TestResult("Summarize", answer # NetworkError /\ Ok(answer)))
  /\ testPc' = "done"
  /\ UNCHANGED <<summarizeVars, ocrVars, boxVars, pageVars, scannerVars, testRequests>>

InitPage ==
  /\ SummarizeIdle
  /\ OcrIdle
  /\ BoxIdle
  /\ ScannerIdle
  /\ PageIdle
  /\ testPc = "start"
  /\ testRequests = [ocr |-> 0, summarize |-> 0]
  /\ testResults = <<>>

NextPage ==
  \/ PickFile
  \/ handleDrop
  \/ \E r \in DOMAIN runs : FileRead(r)
  \/ \E r \in DOMAIN runs : OcrReturns(r)
  \/ \E r \in DOMAIN runs : SummarizeReturns(r)
  \/ handleReset
  \/ TryAgain
  \/ runTest
  \/ runTest_OcrReturns
  \/ runTest_SummarizeReturns

SpecPage == InitPage /\ [][NextPage]_vars

\* ------------------------------------------------------------ C23 and C28

\* a complete OCR Result: an object with its meta and its list of pages
IsOcrResult(o) ==
  /\ o # Null
  /\ {"meta", "ocr"} \subseteq DOMAIN o
  /\ ValidOcrResult(o)

\* a complete Summary Result: an object with the ten fields
IsSummaryResult(s) == s # Null /\ Fields \subseteq DOMAIN s

\* one run of handleFileSelect is in order: its summarize request was sent only
\* with the OCR Result its OCR request returned, it sent each request at most
\* once, and it is complete only with both results
RunInOrder(run) ==
  /\ run.ocrRequests <= 1
  /\ run.summarizeRequests <= 1
  /\ run.summarizeRequests = 1 => (run.ocrRequests = 1 /\ IsOcrResult(run.ocrResult))
  /\ run.pc = "summarizing" => run.summarizeRequests = 1
  /\ run.pc = "complete" =>
       /\ run.summarizeRequests = 1
       /\ IsOcrResult(run.ocrResult)
       /\ IsSummaryResult(run.summaryResult)
  /\ run.summaryResult # Null => run.pc = "complete"

\* the script is in order: the same, read from its list of results
ScriptInOrder ==
  /\ testRequests.ocr <= 1
  /\ testRequests.summarize <= 1
  /\ testRequests.summarize = 1 =>
       (Len(testResults) >= 1 /\ testResults[1] = TestResult("OCR", TRUE))
  /\ (Len(testResults) >= 1 /\ ~testResults[1].success) =>
       (testPc = "done" /\ testRequests.summarize = 0 /\ Len(testResults) = 1)
  /\ (Len(testResults) = 2) => testPc = "done"

\* a step in which run r fails leaves the page in the error state with a
\* message, and a failed run takes no further step
FailureEndsRun ==
  \A r \in DOMAIN runs :
    /\ (runs[r].pc # "failed" /\ runs'[r].pc = "failed") =>
         /\ processingState' = "error"
         /\ Truthy(pageError')
         /\ runs'[r].ocrRequests = runs[r].ocrRequests
         /\ runs'[r].summarizeRequests = runs[r].summarizeRequests
    /\ runs[r].pc = "failed" => runs'[r] = runs[r]

\* C23: in every run of a document submission, by the upload page and by the
\* pipeline script, the summarize request is sent only after the OCR request
\* returned successfully with a complete OCR Result, each request is sent at
\* most once, a failed OCR or summarize request ends the run in the error state,
\* and the page is 'complete' with the review shown only while it holds both an
\* OCR Result and a Summary Result.
C23_PipelineOrder ==
  /\ [](\A r \in DOMAIN runs : RunInOrder(runs[r]))
  /\ []ScriptInOrder
  /\ []((processingState = "complete" \/ ReviewShown) =>
          (IsOcrResult(results.ocrResult) /\ IsSummaryResult(results.summaryResult)))
  /\ [][FailureEndsRun]_vars

\* a run went through both requests and its review is shown, and the script
\* has recorded both of its steps
C23_Witness ==
  /\ processingState = "complete"
  /\ ReviewShown
  /\ \E r \in DOMAIN runs :
       /\ runs[r].pc = "complete"
       /\ runs[r].ocrRequests = 1
       /\ runs[r].summarizeRequests = 1
       /\ results.ocrResult = runs[r].ocrResult
  /\ Len(testResults) = 2

\* a run whose OCR request failed: the page shows the error, nothing was sent
\* to /api/summarize
C23_WitnessFailed ==
  /\ processingState = "error"
  /\ \E r \in DOMAIN runs :
       /\ runs[r].pc = "failed"
       /\ runs[r].ocrRequests = 1
       /\ runs[r].summarizeRequests = 0
  /\ testResults = <<TestResult("OCR", FALSE)>>

\* the runs of handleFileSelect that have not ended
InFlight == {r \in DOMAIN runs : runs[r].pc \in {"reading", "ocr", "summarizing"}}

\* C28: at most one pipeline is in flight in the upload page: while
\* processingState is not 'idle', no pick and no drop of a file starts another
\* run or changes the one in progress.
C28_OnePipeline == Cardinality(InFlight) <= 1

\* ---------------------------------------------------------------------------
\* CaptureScanner (part_001): the effect that initializes the scanner, its
\* cleanup, and the component around them

\* containerRef.current: the container is rendered when there is neither an
\* error nor the "Initializing camera..." placeholder
ContainerRendered == mounted /\ ~Truthy(scannerError) /\ ~isInitializing

\* the cleanup of the effect, which leaves every scanner but scannerRef.current
\* as it is
Cleanup ==
  IF scannerRef # 0 THEN [scanners EXCEPT ![scannerRef] = "disposed"] ELSE scanners

\* the catch of initializeScanner
ScannerCatch(e) ==
  /\ scannerError' = Str("Failed to initialize scanner")
  /\ isInitializing' = FALSE
  /\ effects' = [effects EXCEPT ![e] = "done"]

\* await import('scanbot-web-sdk') settles, with the SDK or with the mock;
\* sdk.initialize is called
ImportSettles(e) ==
  /\ effects[e] = "import"
  /\ effects' = [effects EXCEPT ![e] = "initialize"]
  /\ UNCHANGED <<summarizeVars, ocrVars, boxVars, pageVars, scriptVars>>
  /\ UNCHANGED <<mounted, isInitializing, scannerError, scannerRef, scanners>>

\* await sdk.initialize settles: createDocumentScanner is called when the
\* container is there
InitializeSettles(e) ==
  /\ effects[e] = "initialize"
  /\ \/ /\ ContainerRendered
        /\ effects' = [effects EXCEPT ![e] = "create"]
        /\ UNCHANGED <<isInitializing, scannerError>>
     \/ /\ ~ContainerRendered
        /\ isInitializing' = FALSE
        /\ effects' = [effects EXCEPT ![e] = "done"]
        /\ UNCHANGED scannerError
     \/ ScannerCatch(e)
  /\ UNCHANGED <<summarizeVars, ocrVars, boxVars, pageVars, scriptVars>>
  /\ UNCHANGED <<mounted, scannerRef, scanners>>

\* await sdk.createDocumentScanner settles: the scanner is kept in scannerRef
\* and started
CreateSettles(e) ==
  /\ effects[e] = "create"
  /\ \/ /\ scanners' = Append(scanners, "created")
        /\ scannerRef' = Len(scanners) + 1
        /\ effects' = [effects EXCEPT ![e] = "start"]
        /\ UNCHANGED <<isInitializing, scannerError>>
     \/ /\ ScannerCatch(e)
        /\ UNCHANGED <<scannerRef, scanners>>
  /\ UNCHANGED <<summarizeVars, ocrVars, boxVars, pageVars, scriptVars, mounted>>

\* await scanner.start() settles
StartSettles(e) ==
  /\ effects[e] = "start"
  /\ \/ /\ isInitializing' = FALSE
        /\ effects' = [effects EXCEPT ![e] = "done"]
        /\ UNCHANGED scannerError
     \/ ScannerCatch(e)
  /\ UNCHANGED <<summarizeVars, ocrVars, boxVars, pageVars, scriptVars>>
  /\ UNCHANGED <<mounted, scannerRef, scanners>>

\* the licenseKey prop changes: the cleanup runs, then the effect again
ChangeLicenseKey ==
  /\ mounted
  /\ Len(effects) < MaxEffects
  /\ scanners' = Cleanup
  /\ effects' = Append(effects, "import")
  /\ UNCHANGED <<summarizeVars, ocrVars, boxVars, pageVars, scriptVars>>
  /\ UNCHANGED <<mounted, isInitializing, scannerError, scannerRef>>

\* the component is unmounted: the cleanup runs
Unmount ==
  /\ mounted
  /\ mounted' = FALSE
  /\ scanners' = Cleanup
  /\ UNCHANGED <<summarizeVars, ocrVars, boxVars, pageVars, scriptVars>>
  /\ UNCHANGED <<isInitializing, scannerError, effects, scannerRef>>

\* the "Dismiss" button of the error display
Dismiss ==
  /\ mounted
  /\ Truthy(scannerError)
  /\ scannerError' = Null
  /\ UNCHANGED <<summarizeVars, ocrVars, boxVars, pageVars, scriptVars>>
  /\ UNCHANGED <<mounted, isInitializing, effects, scannerRef, scanners>>

\* the component has been mounted and its effect has run once
InitScanner ==
  /\ SummarizeIdle
  /\ OcrIdle
  /\ BoxIdle
  /\ PageIdle
  /\ ScriptIdle
  /\ mounted = TRUE
  /\ isInitializing = TRUE
  /\ scannerError = Null
  /\ effects = <<"import">>
  /\ scannerRef = 0
  /\ scanners = <<>>

NextScanner ==
  \/ \E e \in DOMAIN effects : ImportSettles(e)
  \/ \E e \in DOMAIN effects : InitializeSettles(e)
  \/ \E e \in DOMAIN effects : CreateSettles(e)
  \/ \E e \in DOMAIN effects : StartSettles(e)
  \/ ChangeLicenseKey
  \/ Unmount
  \/ Dismiss

SpecScanner == InitScanner /\ [][NextScanner]_vars

\* ------------------------------------------------------------------- C29

\* the component is gone and no run of initializeScanner is pending
ScannerQuiescent == ~mounted /\ \A e \in DOMAIN effects : effects[e] = "done"

\* C29: for every interleaving of the initialization with an unmount, every
\* scanner that was created is disposed: none is created or started after the
\* cleanup has run and left undisposed.
C29_ScannersDisposed ==
  ScannerQuiescent => \A s \in DOMAIN scanners : scanners[s] = "disposed"

\* what does hold: the scanner that scannerRef holds when the cleanup runs is
\* disposed
C29_HeldScannerDisposed ==
  [][(mounted /\ ~mounted' /\ scannerRef # 0) => scanners'[scannerRef] = "disposed"]_vars

\* ------------------------------------------------------------------- C30

\* the candidate the route parsed out of the backend's text
Parsed == JsonParse(Match(backendText.a)).value

\* C30: the normalizer's output has exactly the ten Summary Result fields:
\* every other key of the candidate (key_highlights, detailed_summary, which the
\* review UI reads) is absent from it, and the candidate itself is left as it
\* was parsed.
C30_ExactlyTenFields ==
  /\ (candidate # NoCandidate /\ response.status = 200) =>
       /\ DOMAIN response.body = Fields
       /\ \A key \in OtherKeys : key \notin DOMAIN response.body
       /\ candidate = Parsed
  /\ renormalized # NoCandidate =>
       /\ DOMAIN renormalized = Fields
       /\ DOMAIN response.body = Fields

\* the backend answered a summary with key_highlights and detailed_summary and
\* the response carries neither
C30_Witness ==
  /\ candidate # NoCandidate
  /\ OtherKeys \subseteq DOMAIN candidate
  /\ \A key \in OtherKeys : Truthy(candidate[key])
  /\ response.status = 200
  /\ \A key \in OtherKeys : key \notin DOMAIN response.body

====
